---- MODULE Spec2Model ----
(***************************************************************************)
(* Model of ledger's report construction (report.cc): the report_t option  *)
(* fields, chain_xact_handlers, and the drivers xacts_report, entry_report,*)
(* sum_all_accounts and accounts_report.                                   *)
(*                                                                         *)
(* A handler chain is a sequence of stage records, head first: the head is *)
(* the handler that the walker calls, the last element is the base handler *)
(* that the caller supplied.  `new X(handler, ...)' makes a stage whose    *)
(* successor is the old handler, so handler.reset(new X(handler)) puts X   *)
(* in front of the sequence.                                               *)
(***************************************************************************)
EXTENDS Integers, Sequences, FiniteSets, TLC

VARIABLES
  opts,        \* the report_t option fields
  verify,      \* DO_VERIFY(): whether verification is enabled
  now,         \* current_moment
  pc,          \* position inside the running driver, "idle" between reports
  driver,      \* "xacts", "entry", "accounts" or "direct" (the builder's caller)
  entry_arg,   \* the entry handed to entry_report
  chain,       \* the handler chain_xact_handlers returned, head first
  prev,        \* the chain of the direct build before this one, and its mode
  mode,        \* handle_individual_xacts of the last build
  walkpos,     \* how many items the walker has pushed
  run,         \* the stages' state, the logs and the scratch annotations
  acct,        \* account side of accounts_report: totals, walker, handler
  events,      \* what the running driver has done so far, in order
  helper       \* the last call of a report helper: function, arguments, outcome

vars == <<opts, verify, now, pc, driver, entry_arg, chain, prev, mode,
          walkpos, run, acct, events, helper>>

(* ---------------------------------------------------------------------- *)
(* Bounds of the exploration                                              *)
(* ---------------------------------------------------------------------- *)
MaxOpts == 2          \* option fields set before chain_xact_handlers is used directly
MaxRunOpts == 1       \* option fields set before the report drivers run
MaxDescendLen == 2    \* longest descend_expr string
MaxClock == 1         \* how far current_moment advances
NumEntries == 2       \* entries in the journal
MaxSelectOpts == 3    \* selecting options set before the report drivers run
MaxArgs == 5          \* most arguments handed to a report helper

(* ---------------------------------------------------------------------- *)
(* The journal (the store the walkers iterate)                            *)
(* ---------------------------------------------------------------------- *)
Accounts == {"A", "B"}
AccountOrder == <<"A", "B", "<Total>">>

\* every entry has two balanced transactions; entry e is dated e
XactOf(n) ==
  [id |-> n, entry |-> (n + 1) \div 2,
   account |-> IF n % 2 = 1 THEN "A" ELSE "B",
   amount |-> IF n % 2 = 1 THEN (n + 1) \div 2 ELSE 0 - ((n + 1) \div 2),
   date |-> (n + 1) \div 2,
   total |-> 0, payee |-> "payee", comps |-> <<>>]

NumXacts == 2 * NumEntries

\* session_xacts_iterator: every entry's transactions in registration order
SessionXacts == [n \in 1..NumXacts |-> XactOf(n)]

\* entry_xacts_iterator: one entry's transactions
EntryXacts(e) == [k \in 1..2 |-> XactOf(2 * (e - 1) + k)]

(* ---------------------------------------------------------------------- *)
(* report_t option fields                                                 *)
(* ---------------------------------------------------------------------- *)
Chars == {"a", ";"}

RECURSIVE StringsUpTo(_)
StringsUpTo(n) ==
  IF n = 0 THEN {<<>>}
  ELSE LET S == StringsUpTo(n - 1)
       IN  S \cup {Append(s, c) : s \in {t \in S : Len(t) = n - 1}, c \in Chars}

DefaultOpts ==
  [head_entries |-> 0, tail_entries |-> 0,
   display_predicate |-> "", descend_expr |-> <<>>,
   reconcile_balance |-> "", reconcile_date |-> "",
   secondary_predicate |-> "", sort_string |-> "", entry_sort |-> FALSE,
   show_revalued |-> FALSE, show_revalued_only |-> FALSE,
   show_collapsed |-> FALSE, show_subtotal |-> FALSE,
   days_of_the_week |-> FALSE, by_payee |-> FALSE,
   report_period |-> "", show_inverted |-> FALSE,
   show_related |-> FALSE, show_all_related |-> FALSE,
   predicate |-> "", comm_as_payee |-> FALSE, code_as_payee |-> FALSE]

OptionNames == DOMAIN DefaultOpts

BoolOptions ==
  {"entry_sort", "show_revalued", "show_revalued_only", "show_collapsed",
   "show_subtotal", "days_of_the_week", "by_payee", "show_inverted",
   "show_related", "show_all_related", "comm_as_payee", "code_as_payee"}

\* the values an option handler can store in a field
OptionValues(f) ==
  IF f \in BoolOptions THEN {TRUE}
  ELSE IF f \in {"head_entries", "tail_entries"} THEN {1}
  ELSE IF f = "descend_expr" THEN StringsUpTo(MaxDescendLen) \ {<<>>}
  ELSE IF f = "reconcile_balance" THEN {"100"}
  ELSE IF f = "reconcile_date" THEN {"2008/01/01", "bogus"}
  ELSE IF f = "sort_string" THEN {"d"}
  ELSE IF f = "report_period" THEN {"daily"}
  ELSE {"a>0"}

OptsSet(o) == {f \in OptionNames : o[f] # DefaultOpts[f]}

(* ---------------------------------------------------------------------- *)
(* Stages                                                                 *)
(* ---------------------------------------------------------------------- *)
\* A stage object: its class (kind), the place in chain_xact_handlers that
\* constructed it (slot), and its constructor arguments.
Stage(kind, slot) ==
  [kind |-> kind, slot |-> slot, expr |-> "", dexpr |-> <<>>, flag |-> FALSE,
   head |-> 0, tail |-> 0, cutoff |-> 0]

\* mutant: the new stage is linked behind the old handler
Wrap_behind(stage, handler) == handler \o <<stage>>

\* handler.reset(new X(handler, ...)): X's successor is the old handler
Wrap(stage, handler) == <<stage>> \o handler

\* parse_datetime: the date parser; a string that is no date raises
ParsesAsDate(s) == s = "2008/01/01"
parse_datetime(s) == IF s = "2008/01/01" THEN 2 ELSE 0

\* std::string::npos
npos == 0 - 1

\* std::string::find(c, beg), positions counted from 0
RECURSIVE find(_, _, _)
find(s, c, beg) ==
  IF beg >= Len(s) THEN npos
  ELSE IF s[beg + 1] = c THEN beg
  ELSE find(s, c, beg + 1)

\* std::string(s, beg, n) and std::string(s, beg)
substr(s, beg, n) == [k \in 1..n |-> s[beg + k]]
substr_from(s, beg) == substr(s, beg, Len(s) - beg)

\* the for loop that fills descend_exprs, and the push_back after it
RECURSIVE split_loop(_, _, _, _)
split_loop(s, beg, pos, acc) ==
  IF pos # npos
    THEN split_loop(s, pos + 1, find(s, ";", pos + 1),
                    Append(acc, substr(s, beg, pos - beg)))
    ELSE Append(acc, substr_from(s, beg))

\* mutant: the segment after the last separator is dropped when it is empty
descend_exprs_drop_trailing(s) ==
  LET all == split_loop(s, 0, find(s, ";", 0), <<>>)
  IN  IF all[Len(all)] = <<>> THEN SubSeq(all, 1, Len(all) - 1) ELSE all

descend_exprs(s) == split_loop(s, 0, find(s, ";", 0), <<>>)

(* ---------------------------------------------------------------------- *)
(* chain_xact_handlers, block by block                                    *)
(* ---------------------------------------------------------------------- *)
add_truncate(h, o) ==
  IF o.head_entries # 0 \/ o.tail_entries # 0
    THEN Wrap([Stage("truncate_entries", "truncate") EXCEPT
                 !.head = o.head_entries, !.tail = o.tail_entries], h)
    ELSE h

add_display_filter(h, o) ==
  IF o.display_predicate # ""
    THEN Wrap([Stage("filter_xacts", "display_predicate") EXCEPT
                 !.expr = o.display_predicate], h)
    ELSE h

add_calc(h, o) == Wrap(Stage("calc_xacts", "calc"), h)

\* mutant: descend_exprs is iterated forwards, the first expression is
\* wrapped first
RECURSIVE wrap_components_forward(_, _, _)
wrap_components_forward(h, exprs, i) ==
  IF i = 0 THEN h
  ELSE Wrap([Stage("component_xacts", "descend_expr") EXCEPT
               !.dexpr = exprs[i]],
            wrap_components_forward(h, exprs, i - 1))

\* the reverse iteration over descend_exprs: the last expression is wrapped
\* first, the first expression last
RECURSIVE wrap_components(_, _, _)
wrap_components(h, exprs, i) ==
  IF i = 0 THEN h
  ELSE wrap_components(
         Wrap([Stage("component_xacts", "descend_expr") EXCEPT
                 !.dexpr = exprs[i]], h),
         exprs, i - 1)

add_components(h, o) ==
  IF o.descend_expr # <<>>
    THEN LET exprs == descend_exprs(o.descend_expr)
         IN  wrap_components(h, exprs, Len(exprs))
    ELSE h

remember_components(o, individual) == individual /\ o.descend_expr # <<>>

\* mutant: the cutoff is always the current moment
reconcile_cutoff_now(o, moment) == moment

\* the cutoff handed to reconcile_xacts
reconcile_cutoff(o, moment) ==
  IF o.reconcile_date # "" THEN parse_datetime(o.reconcile_date) ELSE moment

add_reconcile(h, o, moment) ==
  IF o.reconcile_balance # ""
    THEN Wrap([Stage("reconcile_xacts", "reconcile") EXCEPT
                 !.expr = o.reconcile_balance,
                 !.cutoff = reconcile_cutoff(o, moment)], h)
    ELSE h

\* mutant: the secondary predicate is left out when a display predicate
\* already filters
add_secondary_filter_merged(h, o) ==
  IF o.secondary_predicate # "" /\ o.display_predicate = ""
    THEN Wrap([Stage("filter_xacts", "secondary_predicate") EXCEPT
                 !.expr = o.secondary_predicate], h)
    ELSE h

add_secondary_filter(h, o) ==
  IF o.secondary_predicate # ""
    THEN Wrap([Stage("filter_xacts", "secondary_predicate") EXCEPT
                 !.expr = o.secondary_predicate], h)
    ELSE h

\* mutant: the test of sort_string is inverted
add_sort_inverted(h, o) ==
  IF o.sort_string = ""
    THEN Wrap([Stage("sort_xacts", "sort") EXCEPT !.expr = o.sort_string], h)
    ELSE h

add_sort(h, o) ==
  IF o.sort_string # ""
    THEN IF o.entry_sort
           THEN Wrap([Stage("sort_entries", "sort") EXCEPT
                        !.expr = o.sort_string], h)
           ELSE Wrap([Stage("sort_xacts", "sort") EXCEPT
                        !.expr = o.sort_string], h)
    ELSE h

add_revalued(h, o) ==
  IF o.show_revalued
    THEN Wrap([Stage("changed_value_xacts", "revalue") EXCEPT
                 !.flag = o.show_revalued_only], h)
    ELSE h

add_collapse(h, o) ==
  IF o.show_collapsed THEN Wrap(Stage("collapse_xacts", "collapse"), h) ELSE h

add_subtotal(h, o) ==
  IF o.show_subtotal
    THEN Wrap([Stage("subtotal_xacts", "subtotal") EXCEPT
                 !.flag = remember_components(o, TRUE)], h)
    ELSE h

\* mutant: day-of-week and by-payee hang on the else branch of show_subtotal
add_dow_or_payee_exclusive(h, o) ==
  IF o.show_subtotal THEN h
  ELSE IF o.days_of_the_week
    THEN Wrap([Stage("dow_xacts", "subtotal") EXCEPT
                 !.flag = o.descend_expr # <<>>], h)
    ELSE IF o.by_payee
      THEN Wrap([Stage("by_payee_xacts", "subtotal") EXCEPT
                   !.flag = o.descend_expr # <<>>], h)
      ELSE h

add_dow_or_payee(h, o) ==
  IF o.days_of_the_week
    THEN Wrap([Stage("dow_xacts", "subtotal") EXCEPT
                 !.flag = remember_components(o, TRUE)], h)
    ELSE IF o.by_payee
      THEN Wrap([Stage("by_payee_xacts", "subtotal") EXCEPT
                   !.flag = remember_components(o, TRUE)], h)
      ELSE h

\* mutant: the forced sort is constructed before interval_xacts
add_interval_sort_first(h, o) ==
  IF o.report_period # ""
    THEN Wrap([Stage("interval_xacts", "interval") EXCEPT
                 !.expr = o.report_period, !.flag = o.descend_expr # <<>>],
              Wrap([Stage("sort_xacts", "interval_sort") EXCEPT !.expr = "d"],
                   h))
    ELSE h

add_interval(h, o) ==
  IF o.report_period # ""
    THEN Wrap([Stage("sort_xacts", "interval_sort") EXCEPT !.expr = "d"],
              Wrap([Stage("interval_xacts", "interval") EXCEPT
                      !.expr = o.report_period,
                      !.flag = remember_components(o, TRUE)], h))
    ELSE h

\* mutant: truncate_entries is constructed after calc_xacts
individual_stages_truncate_last(h, o, moment) ==
  add_interval(
   add_dow_or_payee(
    add_subtotal(
     add_collapse(
      add_revalued(
       add_sort(
        add_secondary_filter(
         add_reconcile(
          add_components(
           add_truncate(
            add_calc(
             add_display_filter(h, o), o), o), o), o, moment), o), o), o), o),
     o), o), o)

\* mutant: the display filter is constructed after calc_xacts
individual_stages_filter_last(h, o, moment) ==
  add_interval(
   add_dow_or_payee(
    add_subtotal(
     add_collapse(
      add_revalued(
       add_sort(
        add_secondary_filter(
         add_reconcile(
          add_components(
           add_display_filter(
            add_calc(
             add_truncate(h, o), o), o), o), o, moment), o), o), o), o),
     o), o), o)

\* the body of `if (handle_individual_xacts) { ... }'
individual_stages(h, o, moment) ==
  add_interval(
   add_dow_or_payee(
    add_subtotal(
     add_collapse(
      add_revalued(
       add_sort(
        add_secondary_filter(
         add_reconcile(
          add_components(
           add_calc(
            add_display_filter(
             add_truncate(h, o), o), o), o), o, moment), o), o), o), o), o), o), o)

\* mutant: handle_individual_xacts is not tested
add_individual_always(h, o, individual, moment) ==
  individual_stages(h, o, moment)

add_individual(h, o, individual, moment) ==
  IF individual THEN individual_stages(h, o, moment) ELSE h

add_invert(h, o) ==
  IF o.show_inverted THEN Wrap(Stage("invert_xacts", "invert"), h) ELSE h

add_related(h, o) ==
  IF o.show_related
    THEN Wrap([Stage("related_xacts", "related") EXCEPT
                 !.flag = o.show_all_related], h)
    ELSE h

\* mutant: the filter is added whether or not predicate is empty
add_filter_always(h, o) ==
  Wrap([Stage("filter_xacts", "predicate") EXCEPT !.expr = o.predicate], h)

add_filter(h, o) ==
  IF o.predicate # ""
    THEN Wrap([Stage("filter_xacts", "predicate") EXCEPT
                 !.expr = o.predicate], h)
    ELSE h

\* mutant: the test of code_as_payee comes first
add_payee_code_first(h, o) ==
  IF o.code_as_payee THEN Wrap(Stage("set_code_as_payee", "payee"), h)
  ELSE IF o.comm_as_payee THEN Wrap(Stage("set_comm_as_payee", "payee"), h)
  ELSE h

add_payee(h, o) ==
  IF o.comm_as_payee THEN Wrap(Stage("set_comm_as_payee", "payee"), h)
  ELSE IF o.code_as_payee THEN Wrap(Stage("set_code_as_payee", "payee"), h)
  ELSE h

\* chain_xact_handlers(base_handler, handle_individual_xacts): the handler it
\* returns, as the sequence of stages from the returned head to base_handler
chain_xact_handlers(base_handler, individual, o, moment) ==
  add_payee(
   add_filter(
    add_related(
     add_invert(
      add_individual(<<base_handler>>, o, individual, moment), o), o), o), o)

\* mutants: reconcile_date is never parsed; it is parsed before
\* reconcile_balance is tested
chain_throws_never(individual, o) == FALSE
chain_throws_eager(individual, o) ==
  individual /\ o.reconcile_date # "" /\ ~ParsesAsDate(o.reconcile_date)

\* parse_datetime raises inside chain_xact_handlers
chain_throws(individual, o) ==
  individual /\ o.reconcile_balance # "" /\ o.reconcile_date # ""
    /\ ~ParsesAsDate(o.reconcile_date)

\* the caller's handlers
format_xacts == Stage("format_xacts", "base")
set_account_value == Stage("set_account_value", "base")

(* ---------------------------------------------------------------------- *)
(* What a stage does with an item and at end of stream                    *)
(* ---------------------------------------------------------------------- *)
\* the state a stage object keeps: buffered items and two counters
FreshStage == [buf |-> <<>>, n |-> 0, last |-> 0]

\* the state of one run of a chain: one record per stage (loc), what the
\* base handler received (out), the log of operator() calls (seen) and of
\* flush calls (flushed), the transactions and accounts annotated in this
\* run (wrote_x, wrote_a), and the scratch annotations on the store (xdata,
\* adata)
FreshRun(ch, xd, ad) ==
  [loc |-> [i \in 1..Len(ch) |-> FreshStage], out |-> <<>>, seen |-> <<>>,
   flushed |-> <<>>, wrote_x |-> {}, wrote_a |-> {}, xdata |-> xd,
   adata |-> ad]

\* the expression evaluator, for the predicate strings of the model
Eval(expr, x) ==
  IF expr = "a>0" THEN x.amount > 0
  ELSE IF expr = "d>1" THEN x.date > 1
  ELSE TRUE

RECURSIVE SumAmounts(_)
SumAmounts(items) ==
  IF items = <<>> THEN 0 ELSE Head(items).amount + SumAmounts(Tail(items))

\* a manufactured transaction standing for a total of `items'
Synthetic(items, account, entry, date, keep) ==
  [id |-> 0, entry |-> entry, account |-> account,
   amount |-> SumAmounts(items), date |-> date, total |-> 0,
   payee |-> "payee", comps |-> IF keep THEN items ELSE <<>>]

\* one total per account that has items, in account order
RECURSIVE account_totals(_, _, _, _, _)
account_totals(items, k, entry, date, keep) ==
  IF k > Len(AccountOrder) THEN <<>>
  ELSE LET mine == SelectSeq(items, LAMBDA x : x.account = AccountOrder[k])
       IN  (IF mine = <<>> THEN <<>>
            ELSE <<Synthetic(mine, AccountOrder[k], entry, date, keep)>>)
           \o account_totals(items, k + 1, entry, date, keep)

\* bucket of an item for the subtotal family
bucket_of(kind, x) ==
  IF kind = "dow_xacts" THEN x.date % 7
  ELSE IF kind = "by_payee_xacts" THEN x.entry
  ELSE IF kind = "interval_xacts" THEN x.date
  ELSE 0

RECURSIVE bucket_totals(_, _, _, _)
bucket_totals(kind, items, b, keep) ==
  IF b > NumEntries THEN <<>>
  ELSE LET mine == SelectSeq(items, LAMBDA x : bucket_of(kind, x) = b)
       IN  account_totals(mine, 1, 0, b, keep)
           \o bucket_totals(kind, items, b + 1, keep)

\* stable insertion sort by the sort key
sort_key(expr, x) == IF expr = "d" THEN x.date ELSE x.amount

RECURSIVE insert_sorted(_, _, _)
insert_sorted(expr, sorted, x) ==
  IF sorted = <<>> THEN <<x>>
  ELSE IF sort_key(expr, x) < sort_key(expr, Head(sorted))
    THEN <<x>> \o sorted
    ELSE <<Head(sorted)>> \o insert_sorted(expr, Tail(sorted), x)

RECURSIVE sort_items(_, _)
sort_items(expr, items) ==
  IF items = <<>> THEN <<>>
  ELSE insert_sorted(expr, sort_items(expr, SubSeq(items, 1, Len(items) - 1)),
                     items[Len(items)])

\* the entries met so far, in encounter order
RECURSIVE entries_of(_)
entries_of(items) ==
  IF items = <<>> THEN <<>>
  ELSE LET rest == entries_of(SubSeq(items, 1, Len(items) - 1))
           e == items[Len(items)].entry
       IN  IF \E k \in 1..Len(rest) : rest[k] = e THEN rest ELSE Append(rest, e)

ordinal_of(es, e) == CHOOSE k \in 1..Len(es) : es[k] = e

\* what truncate_entries lets through of its buffer
truncate_select(items, head, tail) ==
  LET es == entries_of(items)
  IN  SelectSeq(items, LAMBDA x :
        \/ ordinal_of(es, x.entry) <= head
        \/ ordinal_of(es, x.entry) > Len(es) - tail)

\* operator()(x) of stage s with local state l: the new local state, the
\* items handed to the successor, and the annotations written
stage_accept(s, l, x) ==
  LET pass(y) == [l |-> l, emit |-> <<y>>, xd |-> {}, ad |-> {}]
      drop == [l |-> l, emit |-> <<>>, xd |-> {}, ad |-> {}]
      hold == [l |-> [l EXCEPT !.buf = Append(l.buf, x)], emit |-> <<>>,
               xd |-> {}, ad |-> {}]
  IN
  CASE s.kind = "truncate_entries" ->
         IF s.tail # 0 THEN hold
         ELSE LET n == IF l.last = x.entry THEN l.n ELSE l.n + 1
                  l2 == [l EXCEPT !.n = n, !.last = x.entry]
              IN  [l |-> l2, emit |-> IF n <= s.head THEN <<x>> ELSE <<>>,
                   xd |-> {}, ad |-> {}]
    [] s.kind = "filter_xacts" -> IF Eval(s.expr, x) THEN pass(x) ELSE drop
    [] s.kind = "calc_xacts" ->
         [l |-> [l EXCEPT !.n = l.n + x.amount],
          emit |-> <<[x EXCEPT !.total = l.n + x.amount]>>,
          xd |-> {x.id} \ {0}, ad |-> {}]
    [] s.kind = "component_xacts" ->
         IF x.comps # <<>>
           THEN [l |-> l, emit |-> x.comps, xd |-> {}, ad |-> {}]
           ELSE pass(x)
    [] s.kind \in {"reconcile_xacts", "sort_xacts", "sort_entries",
                   "subtotal_xacts", "dow_xacts", "by_payee_xacts"} -> hold
    [] s.kind = "changed_value_xacts" -> pass(x)
    [] s.kind = "collapse_xacts" ->
         IF l.buf # <<>> /\ l.last # x.entry
           THEN [l |-> [l EXCEPT !.buf = <<x>>, !.last = x.entry],
                 emit |-> <<Synthetic(l.buf, "<Total>", l.last,
                                      Head(l.buf).date, FALSE)>>,
                 xd |-> {}, ad |-> {}]
           ELSE [l |-> [l EXCEPT !.buf = Append(l.buf, x), !.last = x.entry],
                 emit |-> <<>>, xd |-> {}, ad |-> {}]
    [] s.kind = "interval_xacts" ->
         IF l.buf # <<>> /\ l.last # x.date
           THEN [l |-> [l EXCEPT !.buf = <<x>>, !.last = x.date],
                 emit |-> account_totals(l.buf, 1, 0, l.last, s.flag),
                 xd |-> {}, ad |-> {}]
           ELSE [l |-> [l EXCEPT !.buf = Append(l.buf, x), !.last = x.date],
                 emit |-> <<>>, xd |-> {}, ad |-> {}]
    [] s.kind = "invert_xacts" ->
         pass([x EXCEPT !.amount = 0 - x.amount, !.total = 0 - x.total])
    [] s.kind = "related_xacts" ->
         IF ~s.flag THEN pass(x)
         ELSE IF \E k \in 1..Len(l.buf) : l.buf[k] = x.entry THEN drop
         ELSE [l |-> [l EXCEPT !.buf = Append(l.buf, x.entry)],
               emit |-> IF x.entry \in 1..NumEntries
                          THEN EntryXacts(x.entry) ELSE <<x>>,
               xd |-> {}, ad |-> {}]
    [] s.kind = "set_comm_as_payee" -> pass([x EXCEPT !.payee = "commodity"])
    [] s.kind = "set_code_as_payee" -> pass([x EXCEPT !.payee = "code"])
    [] s.kind = "set_account_value" ->
         [l |-> l, emit |-> <<>>, xd |-> {}, ad |-> {x.account}]
    [] OTHER -> drop

\* flush() of stage s: what it hands to its successor before flushing it
stage_flush(s, l) ==
  CASE s.kind = "truncate_entries" -> truncate_select(l.buf, s.head, s.tail)
    [] s.kind = "reconcile_xacts" ->
         SelectSeq(l.buf, LAMBDA x : x.date <= s.cutoff)
    [] s.kind \in {"sort_xacts", "sort_entries"} -> sort_items(s.expr, l.buf)
    [] s.kind \in {"subtotal_xacts", "dow_xacts", "by_payee_xacts"} ->
         bucket_totals(s.kind, l.buf, 0, s.flag)
    [] s.kind = "collapse_xacts" ->
         IF l.buf = <<>> THEN <<>>
         ELSE <<Synthetic(l.buf, "<Total>", l.last, Head(l.buf).date, FALSE)>>
    [] s.kind = "interval_xacts" ->
         IF l.buf = <<>> THEN <<>>
         ELSE account_totals(l.buf, 1, 0, l.last, s.flag)
    [] OTHER -> <<>>

\* operator() on stage i of chain ch for each of `items' in turn; whatever
\* a stage hands on goes down the chain before the next item is taken
RECURSIVE accept(_, _, _, _)
accept(ch, st, i, items) ==
  IF items = <<>> THEN st
  ELSE LET x == Head(items)
           r == stage_accept(ch[i], st.loc[i], x)
           st1 == [st EXCEPT !.loc[i] = r.l,
                             !.seen = Append(@, <<i, x.id>>),
                             !.wrote_x = @ \cup r.xd,
                             !.wrote_a = @ \cup r.ad,
                             !.xdata = @ \cup r.xd,
                             !.adata = @ \cup r.ad,
                             !.out = IF i = Len(ch) THEN Append(@, x) ELSE @]
           st2 == IF i < Len(ch) THEN accept(ch, st1, i + 1, r.emit) ELSE st1
       IN  accept(ch, st2, i, Tail(items))

\* flush() on stage i: emit the buffered output, then flush the successor
RECURSIVE flush(_, _, _)
flush(ch, st, i) ==
  LET out == stage_flush(ch[i], st.loc[i])
      st1 == [st EXCEPT !.loc[i].buf = <<>>, !.flushed = Append(@, i)]
  IN  IF i < Len(ch)
        THEN flush(ch, accept(ch, st1, i + 1, out), i + 1)
        ELSE st1

(* ---------------------------------------------------------------------- *)
(* State and the option handlers                                          *)
(* ---------------------------------------------------------------------- *)
NoCall == [fn |-> "none", args |-> <<>>, outcome |-> "none"]

NoAcct == [summed |-> FALSE, total |-> [a \in {} |-> 0], pos |-> 0,
           out |-> <<>>, flushed |-> 0]

Init ==
  /\ opts = DefaultOpts
  /\ verify \in BOOLEAN
  /\ now = 1
  /\ pc = "idle"
  /\ driver = "none"
  /\ entry_arg = 0
  /\ chain = <<>>
  /\ prev = [chain |-> <<>>, mode |-> FALSE]
  /\ mode = FALSE
  /\ walkpos = 0
  /\ run = FreshRun(<<>>, {}, {})
  /\ acct = NoAcct
  /\ events = <<>>
  /\ helper = NoCall

\* an option handler stores a value in one field, while no report runs; a
\* caller that has built a chain directly leaves the options alone after it
SetOptionUpTo(k) ==
  /\ pc = "idle" /\ prev.chain = <<>>
  /\ Cardinality(OptsSet(opts)) < k
  /\ \E f \in OptionNames \ OptsSet(opts) : \E v \in OptionValues(f) :
       opts' = [opts EXCEPT ![f] = v]
  /\ UNCHANGED <<helper, verify, now, pc, driver, entry_arg, chain, prev, mode,
                 walkpos, run, acct, events>>

SetOption == SetOptionUpTo(MaxOpts)
SetReportOption == SetOptionUpTo(MaxRunOpts)

\* time passes between two builds
Tick ==
  /\ pc = "idle" /\ prev.chain # <<>> /\ now <= MaxClock
  /\ now' = now + 1
  /\ UNCHANGED <<helper, opts, verify, pc, driver, entry_arg, chain, prev, mode,
                 walkpos, run, acct, events>>

\* the items the running walker iterates
WalkerItems ==
  IF driver = "entry" THEN EntryXacts(entry_arg) ELSE SessionXacts

\* the call chain_xact_handlers(base, individual) made by driver d; when it
\* raises, the exception leaves the driver and nothing else happens
Build(d, e, base, individual) ==
  /\ pc = "idle"
  /\ driver' = d /\ entry_arg' = e /\ mode' = individual
  /\ walkpos' = 0 /\ acct' = NoAcct
  /\ IF chain_throws(individual, opts)
       THEN /\ pc' = "thrown"
            /\ chain' = <<>>
            /\ run' = FreshRun(<<>>, run.xdata, run.adata)
            /\ events' = <<"throw">>
       ELSE /\ pc' = "walk"
            /\ chain' = chain_xact_handlers(base, individual, opts, now)
            /\ run' = FreshRun(chain', run.xdata, run.adata)
            /\ events' = <<"build">>
  /\ UNCHANGED <<helper, opts, verify, now, prev>>

\* pass_down_xacts: the walker hands its next item to the head of the chain
Walk ==
  /\ pc = "walk" /\ walkpos < Len(WalkerItems)
  /\ walkpos' = walkpos + 1
  /\ run' = accept(chain, run, 1, <<WalkerItems[walkpos + 1]>>)
  /\ events' = Append(events, "push")
  /\ UNCHANGED <<helper, opts, verify, now, pc, driver, entry_arg, chain, prev,
                 mode, acct>>

\* the driver returns (or the exception leaves it): its handlers and its
\* walker go away, the scratch annotations stay on the store
Return ==
  /\ pc \in {"return", "thrown"}
  /\ pc' = "idle"
  /\ driver' = "none" /\ entry_arg' = 0 /\ mode' = FALSE
  /\ walkpos' = 0 /\ acct' = NoAcct
  /\ prev' = IF driver = "direct" /\ chain # <<>>
               THEN [chain |-> chain, mode |-> mode] ELSE prev
  /\ chain' = <<>>
  /\ run' = FreshRun(<<>>, run.xdata, run.adata)
  /\ events' = <<>>
  /\ UNCHANGED <<helper, opts, verify, now>>

(* ---------------------------------------------------------------------- *)
(* chain_xact_handlers used directly                                      *)
(* ---------------------------------------------------------------------- *)
\* a caller builds a chain; when it builds again it passes the same base
\* handler and the same mode as before
BuildChain ==
  \E base \in {format_xacts, set_account_value}, individual \in BOOLEAN :
    /\ prev.chain # <<>> =>
         individual = prev.mode /\ base = prev.chain[Len(prev.chain)]
    /\ Build("direct", 0, base, individual)

\* the caller drains the chain it built: flush() on the returned head
FlushHead ==
  /\ pc = "walk" /\ driver = "direct" /\ walkpos = Len(WalkerItems)
  /\ run' = flush(chain, run, 1)
  /\ pc' = "return"
  /\ events' = Append(events, "flush")
  /\ UNCHANGED <<helper, opts, verify, now, driver, entry_arg, chain, prev, mode,
                 walkpos, acct>>

NextBuild == SetOption \/ Tick \/ BuildChain \/ Walk \/ FlushHead \/ Return

InitBuild == Init /\ ~verify

SpecBuild == InitBuild /\ [][NextBuild]_vars

(* ---------------------------------------------------------------------- *)
(* The report drivers                                                     *)
(* ---------------------------------------------------------------------- *)
\* `handler->flush()' in a driver: `handler' is the driver's own parameter,
\* of which chain_xact_handlers received a copy, so it still designates
\* the base handler, the last stage of the chain
flushed_handler(ch) == Len(ch)

\* session.clean_xacts(), session.clean_xacts(entry), session.clean_accounts()
apply_clean(call, st, e) ==
  CASE call = "clean_xacts" -> [st EXCEPT !.xdata = {}]
    [] call = "clean_entry_xacts" ->
         [st EXCEPT !.xdata = @ \ {EntryXacts(e)[k].id : k \in 1..2}]
    [] call = "clean_accounts" -> [st EXCEPT !.adata = {}]
    [] OTHER -> st

RECURSIVE apply_cleans(_, _, _)
apply_cleans(calls, st, e) ==
  IF calls = <<>> THEN st
  ELSE apply_cleans(Tail(calls), apply_clean(Head(calls), st, e), e)

\* the clean calls at the end of each driver
\* mutants: a driver that forgets a clean call
entry_report_cleans_none(v) == <<>>
accounts_report_cleans_xacts_only(v) == IF v THEN <<"clean_xacts">> ELSE <<>>

xacts_report_cleans(v) == IF v THEN <<"clean_xacts">> ELSE <<>>
entry_report_cleans(v) == IF v THEN <<"clean_entry_xacts">> ELSE <<>>
accounts_report_cleans(v) ==
  IF v THEN <<"clean_xacts", "clean_accounts">> ELSE <<>>

DriverFlush(d) ==
  /\ pc = "walk" /\ driver = d /\ walkpos = Len(WalkerItems)
  /\ run' = flush(chain, run, flushed_handler(chain))
  /\ pc' = "verify"
  /\ events' = Append(events, "flush")
  /\ UNCHANGED <<helper, opts, verify, now, driver, entry_arg, chain, prev,
                 mode, walkpos, acct>>

DriverVerify(d, calls) ==
  /\ pc = "verify" /\ driver = d
  /\ run' = apply_cleans(calls, run, entry_arg)
  /\ events' = events \o calls
  /\ pc' = "return"
  /\ UNCHANGED <<helper, opts, verify, now, driver, entry_arg, chain, prev, mode,
                 walkpos, acct>>

\* xacts_report
XactsReportBuild == Build("xacts", 0, format_xacts, TRUE)
XactsReportFlush == DriverFlush("xacts")
XactsReportVerify == DriverVerify("xacts", xacts_report_cleans(verify))

\* entry_report
EntryReportBuild ==
  \E e \in 1..NumEntries : Build("entry", e, format_xacts, TRUE)
EntryReportFlush == DriverFlush("entry")
EntryReportVerify == DriverVerify("entry", entry_report_cleans(verify))

\* sum_all_accounts: the chain for set_account_value, the walk, and then
\* sum_accounts(*session.master)
SumAllAccountsBuild == Build("accounts", 0, set_account_value, FALSE)

account_value(a, items) ==
  SumAmounts(SelectSeq(items, LAMBDA x : x.account = a))

sum_accounts(items) ==
  [a \in Accounts \cup {"master"} |->
     IF a = "master" THEN SumAmounts(items) ELSE account_value(a, items)]

SumAccounts ==
  /\ pc = "walk" /\ driver = "accounts" /\ walkpos = Len(WalkerItems)
  /\ acct' = [acct EXCEPT !.summed = TRUE, !.total = sum_accounts(run.out)]
  /\ run' = [run EXCEPT !.adata = @ \cup {"master"},
                        !.wrote_a = @ \cup {"master"}]
  /\ pc' = "acct_walk"
  /\ events' = Append(events, "sum_accounts")
  /\ UNCHANGED <<helper, opts, verify, now, driver, entry_arg, chain, prev,
                 mode, walkpos>>

\* mutant: the accounts are always walked in tree order
accounts_walk_unsorted(o, total) == <<"master", "A", "B">>

\* accounts_iterator and sorted_accounts_iterator over the master account
accounts_walk(o, total) ==
  IF o.sort_string = "" THEN <<"master", "A", "B">>
  ELSE IF total["B"] < total["A"] THEN <<"master", "B", "A">>
  ELSE <<"master", "A", "B">>

\* pass_down_accounts: the account walker hands the next account over
AccountsWalk ==
  /\ pc = "acct_walk"
  /\ acct.pos < Len(accounts_walk(opts, acct.total))
  /\ acct' = [acct EXCEPT
                !.pos = @ + 1,
                !.out = Append(@, accounts_walk(opts, acct.total)[acct.pos + 1])]
  /\ events' = Append(events, "acct_push")
  /\ UNCHANGED <<helper, opts, verify, now, pc, driver, entry_arg, chain,
                 prev, mode, walkpos, run>>

\* handler->flush() on the account handler
AccountsFlush ==
  /\ pc = "acct_walk"
  /\ acct.pos = Len(accounts_walk(opts, acct.total))
  /\ acct' = [acct EXCEPT !.flushed = @ + 1]
  /\ pc' = "verify"
  /\ events' = Append(events, "acct_flush")
  /\ UNCHANGED <<helper, opts, verify, now, driver, entry_arg, chain, prev,
                 mode, walkpos, run>>

AccountsReportVerify ==
  DriverVerify("accounts", accounts_report_cleans(verify))

Next ==
  \/ SetReportOption
  \/ XactsReportBuild \/ EntryReportBuild \/ SumAllAccountsBuild
  \/ Walk
  \/ XactsReportFlush \/ EntryReportFlush
  \/ SumAccounts \/ AccountsWalk \/ AccountsFlush
  \/ XactsReportVerify \/ EntryReportVerify \/ AccountsReportVerify
  \/ Return

Spec == Init /\ [][Next]_vars

(* ---------------------------------------------------------------------- *)
(* The report drivers under the selecting options                         *)
(* ---------------------------------------------------------------------- *)
\* the options that select transactions: the three predicates and the
\* reconciliation
SelectOptions ==
  {"display_predicate", "secondary_predicate", "predicate",
   "reconcile_balance", "reconcile_date"}

PredicateOptions == {"display_predicate", "secondary_predicate", "predicate"}

SelectValues(f) ==
  IF f \in PredicateOptions THEN {"a>0", "d>1"} ELSE OptionValues(f)

SetSelectOption ==
  /\ pc = "idle"
  /\ Cardinality(OptsSet(opts)) < MaxSelectOpts
  /\ \E f \in SelectOptions \ OptsSet(opts) : \E v \in SelectValues(f) :
       opts' = [opts EXCEPT ![f] = v]
  /\ UNCHANGED <<helper, verify, now, pc, driver, entry_arg, chain, prev,
                 mode, walkpos, run, acct, events>>

NextSelect ==
  \/ SetSelectOption
  \/ XactsReportBuild \/ EntryReportBuild \/ SumAllAccountsBuild
  \/ Walk
  \/ XactsReportFlush \/ EntryReportFlush
  \/ SumAccounts \/ AccountsWalk \/ AccountsFlush
  \/ XactsReportVerify \/ EntryReportVerify \/ AccountsReportVerify
  \/ Return

SpecSelect == Init /\ [][NextSelect]_vars

(* ---------------------------------------------------------------------- *)
(* The helpers the expression layer calls: abbrev and ftime               *)
(* ---------------------------------------------------------------------- *)
\* an argument is modelled by the kind of value it holds
ArgKinds == {"string", "long", "datetime"}

RECURSIVE ArgListsUpTo(_)
ArgListsUpTo(n) ==
  IF n = 0 THEN {<<>>}
  ELSE LET S == ArgListsUpTo(n - 1)
       IN  S \cup {Append(a, k) : a \in {t \in S : Len(t) = n - 1},
                                   k \in ArgKinds}

\* value_t::as_string, as_long, as_datetime succeed on a value of that kind
converts(v, kind) == v = kind

abbrev_usage == "usage: abbrev(STRING, WIDTH [, STYLE, ABBREV_LEN])"
ftime_usage == "usage: ftime(DATE [, DATE_FORMAT])"

\* report_t::abbrev: the outcome of a call
abbrev(args) ==
  IF Len(args) < 2 THEN abbrev_usage
  ELSE IF ~converts(args[1], "string") THEN "value error"
  ELSE IF Len(args) = 4 /\ ~converts(args[4], "long") THEN "value error"
  ELSE "NULL_VALUE"

\* report_t::ftime: the outcome of a call
ftime(args) ==
  IF Len(args) < 1 THEN ftime_usage
  ELSE IF ~converts(args[1], "datetime") THEN "value error"
  ELSE IF Len(args) = 2 /\ ~converts(args[2], "string") THEN "value error"
  ELSE "NULL_VALUE"

\* a call from the expression layer: the program is single-threaded, so no
\* other call is under way and no report state changes meanwhile; the
\* exploration takes the calls between two reports
HelperCall(fn, args, outcome) ==
  /\ pc = "idle" /\ helper = NoCall
  /\ helper' = [fn |-> fn, args |-> args, outcome |-> outcome]
  /\ UNCHANGED <<opts, verify, now, pc, driver, entry_arg, chain, prev,
                 mode, walkpos, run, acct, events>>

AbbrevCall ==
  /\ helper = NoCall
  /\ \E args \in ArgListsUpTo(MaxArgs) :
       HelperCall("abbrev", args, abbrev(args))

FtimeCall ==
  /\ helper = NoCall
  /\ \E args \in ArgListsUpTo(MaxArgs) :
       HelperCall("ftime", args, ftime(args))

\* the value or the exception has reached the caller
HelperReturn ==
  /\ helper # NoCall
  /\ helper' = NoCall
  /\ UNCHANGED <<opts, verify, now, pc, driver, entry_arg, chain, prev,
                 mode, walkpos, run, acct, events>>

SetHelperOption == helper = NoCall /\ SetReportOption

NextHelpers == SetHelperOption \/ AbbrevCall \/ FtimeCall \/ HelperReturn

SpecHelpers == InitBuild /\ [][NextHelpers]_vars

(* ---------------------------------------------------------------------- *)
(* Reading a chain                                                        *)
(* ---------------------------------------------------------------------- *)
IndividualSlots ==
  {"truncate", "display_predicate", "calc", "descend_expr", "reconcile",
   "secondary_predicate", "sort", "revalue", "collapse", "subtotal",
   "interval", "interval_sort"}

HasSlot(ch, slot) == \E i \in 1..Len(ch) : ch[i].slot = slot

\* the kinds of the stages of one slot, from the head towards the base
KindsOfSlot(ch, slot) ==
  LET sel == SelectSeq(ch, LAMBDA st : st.slot = slot)
  IN  [i \in 1..Len(sel) |-> sel[i].kind]

\* the order the specification gives as source-to-sink
CanonRank(slot) ==
  CASE slot = "truncate" -> 1
    [] slot = "display_predicate" -> 2
    [] slot = "calc" -> 3
    [] slot = "descend_expr" -> 4
    [] slot = "reconcile" -> 5
    [] slot = "secondary_predicate" -> 6
    [] slot = "sort" -> 7
    [] slot = "revalue" -> 8
    [] slot = "collapse" -> 9
    [] slot = "subtotal" -> 10
    [] slot = "interval" -> 11
    [] slot = "interval_sort" -> 12
    [] slot = "invert" -> 13
    [] slot = "related" -> 14
    [] slot = "predicate" -> 15
    [] slot = "payee" -> 16
    [] OTHER -> 17

\* the order in which the built chain hands items on: the stage constructed
\* last is the head, the caller's handler comes last
FlowRank(slot) == IF slot = "base" THEN 17 ELSE 17 - CanonRank(slot)

\* from the moment an item is handed to the head of the chain, the stages
\* see it in the order Rank (stages of rank 0 are left out of the comparison)
SeenInOrder(Rank(_)) ==
  \A j \in 1..Len(run.seen) :
    (run.seen[j][1] = 1 /\ run.seen[j][2] # 0) =>
      \A k \in j..Len(run.seen) :
        (run.seen[k][2] = run.seen[j][2]
         /\ Rank(chain[run.seen[k][1]].slot) # 0) =>
          \A l \in (k + 1)..Len(run.seen) :
            (/\ run.seen[l][2] = run.seen[j][2]
             /\ Rank(chain[run.seen[l][1]].slot) # 0
             /\ chain[run.seen[k][1]].slot # chain[run.seen[l][1]].slot)
            => Rank(chain[run.seen[k][1]].slot)
                 < Rank(chain[run.seen[l][1]].slot)

LinkedInOrder(Rank(_)) ==
  \A i, j \in 1..Len(chain) :
    (i < j /\ chain[i].slot # chain[j].slot)
      => Rank(chain[i].slot) < Rank(chain[j].slot)

(* ---------------------------------------------------------------------- *)
(* C1                                                                     *)
(* ---------------------------------------------------------------------- *)
\* C1 as stated: an item pushed at the chain head is seen by the stages
\* present in the order truncate, display filter, calc, decomposition,
\* reconcile, secondary filter, sort, revalue, collapse, subtotal family,
\* interval, invert, related, general filter, payee substitution, terminal
\* consumer.
C1_CanonicalOrder ==
  (mode /\ chain # <<>>) =>
    SeenInOrder(LAMBDA slot : IF slot = "interval_sort" THEN 0
                              ELSE CanonRank(slot))

\* C1 amended: the stages see a pushed item in the opposite order: payee
\* substitution first, then the general filter, related, invert, the forced
\* date sort, interval, the subtotal family, collapse, revalue, sort, the
\* secondary filter, reconcile, decomposition, calc, the display filter,
\* truncate, and the terminal consumer last; the chain is linked that way.
\* (The log of a run only grows, so it is read once the chain is drained.)
C1_FlowOrder ==
  chain # <<>> =>
    /\ LinkedInOrder(FlowRank)
    /\ chain[Len(chain)].slot = "base"
    /\ pc = "return" => SeenInOrder(FlowRank)

\* an item went through a chain of at least four stages down to the base
C1_Witness ==
  /\ mode /\ Len(chain) >= 4
  /\ \E id \in 1..NumXacts :
       \A i \in 1..Len(chain) :
         \E k \in 1..Len(run.seen) : run.seen[k] = <<i, id>>

(* ---------------------------------------------------------------------- *)
(* C3                                                                     *)
(* ---------------------------------------------------------------------- *)
ByPrecedence(o) ==
  IF o.show_subtotal THEN <<"subtotal_xacts">>
  ELSE IF o.days_of_the_week THEN <<"dow_xacts">>
  ELSE IF o.by_payee THEN <<"by_payee_xacts">>
  ELSE <<>>

\* C3 as stated: the chain holds exactly one subtotal-family aggregator
\* when show_subtotal, days_of_the_week or by_payee is set, none otherwise,
\* chosen by the precedence plain subtotal > day-of-week > by-payee.
C3_ExactlyOneAggregator ==
  (mode /\ chain # <<>>) => KindsOfSlot(chain, "subtotal") = ByPrecedence(opts)

\* C3 amended: in individual mode the chain holds the plain subtotal stage
\* exactly when show_subtotal is set and, independently of it, one bucketing
\* aggregator when days_of_the_week or by_payee is set (day-of-week when
\* days_of_the_week is set, by-payee otherwise); with show_subtotal and one
\* of the other two flags it holds two aggregators, the bucketing one
\* upstream of the plain subtotal.
C3_SubtotalAndBucketing ==
  (mode /\ chain # <<>>) =>
    KindsOfSlot(chain, "subtotal") =
      (IF opts.days_of_the_week THEN <<"dow_xacts">>
       ELSE IF opts.by_payee THEN <<"by_payee_xacts">>
       ELSE <<>>)
      \o (IF opts.show_subtotal THEN <<"subtotal_xacts">> ELSE <<>>)

\* a chain built with show_subtotal and days_of_the_week both set
C3_Witness ==
  /\ mode /\ chain # <<>>
  /\ opts.show_subtotal /\ opts.days_of_the_week
  /\ Len(KindsOfSlot(chain, "subtotal")) = 2

(* ---------------------------------------------------------------------- *)
(* C4                                                                     *)
(* ---------------------------------------------------------------------- *)
IsForcedSort(st) ==
  st.kind = "sort_xacts" /\ st.slot = "interval_sort" /\ st.expr = "d"

\* C4 as stated: the forced date sort sits immediately downstream of
\* interval bucketing, so that what interval emits goes through it.
C4_SortDownstreamOfInterval ==
  \A i \in 1..Len(chain) :
    chain[i].slot = "interval" =>
      i < Len(chain) /\ IsForcedSort(chain[i + 1])

\* C4 amended: the forced date sort sits immediately upstream of interval
\* bucketing and orders its input: interval bucketing sees an item only
\* after the forced sort has seen it and has been flushed, and what
\* interval emits goes to the later stages without passing the forced sort.
C4_SortUpstreamOfInterval ==
  \A i \in 1..Len(chain) :
    chain[i].slot = "interval" =>
      /\ i > 1 /\ IsForcedSort(chain[i - 1])
      /\ \A j \in (i + 1)..Len(chain) : ~IsForcedSort(chain[j])
      /\ \A k \in 1..Len(run.seen) :
           run.seen[k][1] = i =>
             /\ \E f \in 1..Len(run.flushed) : run.flushed[f] = i - 1
             /\ \E j \in 1..(k - 1) : run.seen[j] = <<i - 1, run.seen[k][2]>>

\* interval bucketing has received items and the base handler its totals
C4_Witness ==
  \E i \in 1..Len(chain) :
    /\ chain[i].slot = "interval"
    /\ \E k \in 1..Len(run.seen) : run.seen[k][1] = i
    /\ \E k \in 1..Len(run.seen) : run.seen[k] = <<Len(chain), 0>>

(* ---------------------------------------------------------------------- *)
(* C5                                                                     *)
(* ---------------------------------------------------------------------- *)
\* C5 as stated: two builds with the same configuration, the same terminal
\* consumer and the same mode yield the same chain, stage by stage and
\* parameter by parameter.
C5_Deterministic ==
  (chain # <<>> /\ prev.chain # <<>>) => chain = prev.chain

WithoutCutoff(ch) == [i \in 1..Len(ch) |-> [ch[i] EXCEPT !.cutoff = 0]]

\* C5 amended: two such builds yield the same stages in the same order,
\* with the same parameters except the cutoff of the reconcile stage: that
\* one is the same too when reconcile_date is set, and is the moment of the
\* build when reconcile_balance is set and reconcile_date is empty.
C5_DeterministicButCutoff ==
  (chain # <<>> /\ prev.chain # <<>>) =>
    /\ WithoutCutoff(chain) = WithoutCutoff(prev.chain)
    /\ (opts.reconcile_balance = "" \/ opts.reconcile_date # "")
         => chain = prev.chain
    /\ (mode /\ opts.reconcile_balance # "" /\ opts.reconcile_date = "")
         => \E i \in 1..Len(chain) :
              chain[i].slot = "reconcile" /\ chain[i].cutoff = now

\* a second build, later than the first, of a chain with a reconcile stage
\* whose date is given
C5_Witness ==
  /\ chain # <<>> /\ prev.chain # <<>> /\ now > 1
  /\ opts.reconcile_date # ""
  /\ HasSlot(chain, "reconcile")

(* ---------------------------------------------------------------------- *)
(* C7                                                                     *)
(* ---------------------------------------------------------------------- *)
\* C7: with individual_mode false the chain holds none of the stages of
\* truncate, display filter, calc, decomposition, reconcile, secondary
\* filter, sort, revalue, collapse, subtotal family, interval; in both
\* modes invert, related, the general filter and payee substitution are
\* each present exactly when their option is set.
C7_ModeSplit ==
  chain # <<>> =>
    /\ ~mode => \A i \in 1..Len(chain) : chain[i].slot \notin IndividualSlots
    /\ HasSlot(chain, "invert") <=> opts.show_inverted
    /\ HasSlot(chain, "related") <=> opts.show_related
    /\ HasSlot(chain, "predicate") <=> opts.predicate # ""
    /\ HasSlot(chain, "payee") <=> (opts.comm_as_payee \/ opts.code_as_payee)

\* a chain built in aggregate mode although a sort key is set, with invert
C7_Witness ==
  /\ chain # <<>> /\ ~mode
  /\ opts.sort_string # "" /\ opts.show_inverted
  /\ HasSlot(chain, "invert")

(* ---------------------------------------------------------------------- *)
(* C2                                                                     *)
(* ---------------------------------------------------------------------- *)
\* C2: after the walker of xacts_report or entry_report has pushed its last
\* item, the drain starts at the head of the chain and runs head to tail:
\* every stage is flushed, each before its successor, the terminal
\* consumer last.
C2_DrainHeadToTail ==
  (driver \in {"xacts", "entry"} /\ pc \in {"verify", "return"}) =>
    run.flushed = [i \in 1..Len(chain) |-> i]

(* ---------------------------------------------------------------------- *)
(* C6                                                                     *)
(* ---------------------------------------------------------------------- *)
\* the transaction without the running total stamped on it
Strip(x) == [x EXCEPT !.total = 0]

\* C6: with no option set the chain of the transaction report is the
\* running-total stage and the terminal consumer, which receives exactly the
\* walker's items: each once, in source order, none dropped or added.
C6_NoOptionsIdentity ==
  (driver = "xacts" /\ OptsSet(opts) = {} /\ chain # <<>>) =>
    /\ [i \in 1..Len(chain) |-> chain[i].kind] = <<"calc_xacts", "format_xacts">>
    /\ [i \in 1..Len(run.out) |-> Strip(run.out[i])]
         = SubSeq(SessionXacts, 1, walkpos)

\* a transaction report without options that has run to its end
C6_Witness ==
  /\ driver = "xacts" /\ OptsSet(opts) = {} /\ pc = "return"
  /\ Len(run.out) = NumXacts

(* ---------------------------------------------------------------------- *)
(* C8                                                                     *)
(* ---------------------------------------------------------------------- *)
CommonSlots == {"invert", "related", "predicate", "payee"}

\* C8 as stated: in the account-summary report the chain the session walker
\* drives is the amount-assignment stage alone, which receives every
\* transaction unmodified.
C8_OnlyAmountAssignment ==
  (driver = "accounts" /\ chain # <<>>) =>
    /\ chain = <<set_account_value>>
    /\ run.out = SubSeq(SessionXacts, 1, walkpos)

\* C8 amended: that chain ends in the amount-assignment stage and holds in
\* front of it exactly those of payee substitution, general filter,
\* related expansion and invert whose option is set, and no other stage;
\* when none of these options is set the amount-assignment stage is alone
\* and receives every transaction unmodified.
C8_AmountAssignmentBehindCommonStages ==
  (driver = "accounts" /\ chain # <<>>) =>
    /\ chain[Len(chain)] = set_account_value
    /\ \A i \in 1..(Len(chain) - 1) : chain[i].slot \in CommonSlots
    /\ HasSlot(chain, "invert") <=> opts.show_inverted
    /\ HasSlot(chain, "related") <=> opts.show_related
    /\ HasSlot(chain, "predicate") <=> opts.predicate # ""
    /\ HasSlot(chain, "payee") <=> (opts.comm_as_payee \/ opts.code_as_payee)
    /\ (~opts.show_inverted /\ ~opts.show_related /\ opts.predicate = ""
        /\ ~opts.comm_as_payee /\ ~opts.code_as_payee)
         => /\ chain = <<set_account_value>>
            /\ run.out = SubSeq(SessionXacts, 1, walkpos)

\* the walk of an account-summary report is over, a stage stood in front
\* of the amount-assignment stage, which did not receive the walker's items
C8_Witness ==
  /\ driver = "accounts" /\ pc = "acct_walk"
  /\ Len(chain) = 2
  /\ run.out # SessionXacts

(* ---------------------------------------------------------------------- *)
(* C9                                                                     *)
(* ---------------------------------------------------------------------- *)
\* C9 as stated: when a report starts, no transaction and no account of the
\* store carries a scratch annotation left by an earlier report.
C9_CleanAtStart ==
  events = <<"build">> => run.xdata = {} /\ run.adata = {}

\* C9 amended: with verification enabled every driver has cleared what its
\* report annotated before it returns, so that no annotation is on the
\* store between reports or when the next report starts; with verification
\* disabled a driver clears nothing and what the report annotated is still
\* on the store when it returns.
C9_CleanWhenVerifying ==
  /\ verify =>
       ((pc \in {"idle", "return", "thrown"} \/ events = <<"build">>)
          => run.xdata = {} /\ run.adata = {})
  /\ (~verify /\ pc = "return") =>
       run.wrote_x \subseteq run.xdata /\ run.wrote_a \subseteq run.adata

\* a report that annotated transactions is about to return, verification
\* is enabled and the annotations are gone
C9_Witness ==
  /\ verify /\ pc = "return" /\ driver \in {"xacts", "entry", "accounts"}
  /\ run.wrote_x \cup run.wrote_a # {}
  /\ run.xdata = {} /\ run.adata = {}

(* ---------------------------------------------------------------------- *)
(* C10                                                                    *)
(* ---------------------------------------------------------------------- *)
CleanCalls == {"clean_xacts", "clean_entry_xacts", "clean_accounts"}

Repeat(n, e) == [i \in 1..n |-> e]

\* what a driver has done when it returns
ExpectedEvents(d) ==
  IF d = "xacts"
    THEN <<"build">> \o Repeat(NumXacts, "push") \o <<"flush">>
         \o (IF verify THEN <<"clean_xacts">> ELSE <<>>)
  ELSE IF d = "entry"
    THEN <<"build">> \o Repeat(2, "push") \o <<"flush">>
         \o (IF verify THEN <<"clean_entry_xacts">> ELSE <<>>)
  ELSE <<"build">> \o Repeat(NumXacts, "push") \o <<"sum_accounts">>
       \o Repeat(Cardinality(Accounts) + 1, "acct_push") \o <<"acct_flush">>
       \o (IF verify THEN <<"clean_xacts", "clean_accounts">> ELSE <<>>)

\* C10: with verification enabled each driver runs its clean step once,
\* after the walk and the flush and before it returns: xacts_report cleans
\* the transactions of the whole store, entry_report those of the reported
\* entry, accounts_report the transactions and the accounts; with
\* verification disabled no driver cleans anything.
C10_CleanOnceAtEnd ==
  /\ (pc = "return" /\ driver \in {"xacts", "entry", "accounts"})
       => events = ExpectedEvents(driver)
  /\ pc # "return" =>
       \A k \in 1..Len(events) : events[k] \notin CleanCalls
  /\ (pc = "return" /\ verify) =>
       /\ driver \in {"xacts", "accounts"} => run.xdata = {}
       /\ driver = "entry" =>
            run.xdata \cap {EntryXacts(entry_arg)[k].id : k \in 1..2} = {}
       /\ driver = "accounts" => run.adata = {}

\* accounts_report is about to return after both of its clean calls
C10_Witness ==
  /\ pc = "return" /\ verify /\ driver = "accounts"
  /\ Len(events) >= 2
  /\ events[Len(events) - 1] = "clean_xacts"
  /\ events[Len(events)] = "clean_accounts"
  /\ run.wrote_a # {}

(* ---------------------------------------------------------------------- *)
(* C11                                                                    *)
(* ---------------------------------------------------------------------- *)
Drivers == {"xacts", "entry", "accounts"}

\* C11: in every driver the chain is complete before the walker pushes the
\* first item and stays as built; when construction fails (reconcile_balance
\* set and a reconcile_date that is no date, in individual mode) the driver
\* is left at once: no item is pushed, nothing reaches the terminal
\* consumer, nothing is flushed and no clean step runs.
C11_AllOrNothing ==
  driver \in Drivers =>
    /\ events # <<>> /\ events[1] \in {"build", "throw"}
    /\ \A k \in 2..Len(events) : events[k] \notin {"build", "throw"}
    /\ events[1] = "build" =>
         /\ chain # <<>>
         /\ chain = chain_xact_handlers(chain[Len(chain)], mode, opts, now)
    /\ (mode /\ opts.reconcile_balance # "" /\ opts.reconcile_date = "bogus")
         => pc = "thrown"
    /\ pc = "thrown" =>
         /\ events = <<"throw">> /\ chain = <<>>
         /\ walkpos = 0 /\ run.seen = <<>> /\ run.out = <<>>
         /\ run.flushed = <<>> /\ run.wrote_x = {} /\ run.wrote_a = {}
         /\ acct = NoAcct

\* xacts_report was called with verification enabled, a target balance and
\* a date that does not parse, and the exception is leaving it
C11_Witness ==
  /\ driver = "xacts" /\ pc = "thrown" /\ verify
  /\ opts.reconcile_balance = "100" /\ opts.reconcile_date = "bogus"

(* ---------------------------------------------------------------------- *)
(* C12                                                                    *)
(* ---------------------------------------------------------------------- *)
IsPrefix(a, b) == Len(a) <= Len(b) /\ a = SubSeq(b, 1, Len(a))

\* the steps of accounts_report, in order
AccountsSteps ==
  <<"build">> \o Repeat(NumXacts, "push") \o <<"sum_accounts">>
  \o Repeat(Cardinality(Accounts) + 1, "acct_push") \o <<"acct_flush">>
  \o (IF verify THEN <<"clean_xacts", "clean_accounts">> ELSE <<>>)

\* the amounts the amount-assignment stage received for account a
OwnPostings(a) == SumAmounts(SelectSeq(run.out, LAMBDA x : x.account = a))

\* C12: accounts_report runs its steps one after the other: the session
\* walker pushes every transaction into the amount-assignment chain, then
\* the account tree is summed bottom-up from the master account, then one
\* account walker (tree order when sort_key is empty, ordered by the key
\* otherwise) pushes the accounts into the account handler, then the account
\* handler is flushed once; no account is pushed before the sum is complete.
C12_AccountsStepOrder ==
  driver = "accounts" =>
    /\ IsPrefix(events, AccountsSteps)
    /\ acct.summed =>
         /\ walkpos = NumXacts
         /\ \A n \in 1..NumXacts :
              \E k \in 1..Len(run.seen) : run.seen[k] = <<1, n>>
         /\ \A a \in Accounts : acct.total[a] = OwnPostings(a)
         /\ acct.total["master"] = OwnPostings("A") + OwnPostings("B")
    /\ ~acct.summed => acct.pos = 0 /\ acct.out = <<>> /\ acct.flushed = 0
    /\ Len(acct.out) = acct.pos
    /\ \A i, j \in 1..Len(acct.out) : i < j => acct.out[i] # acct.out[j]
    /\ acct.out # <<>> => acct.out[1] = "master"
    /\ opts.sort_string = "" => IsPrefix(acct.out, <<"master", "A", "B">>)
    /\ opts.sort_string # "" =>
         \A i, j \in 2..Len(acct.out) :
           i < j => acct.total[acct.out[i]] <= acct.total[acct.out[j]]
    /\ acct.flushed = IF pc \in {"verify", "return"} THEN 1 ELSE 0
    /\ acct.flushed = 1 => Len(acct.out) = Cardinality(Accounts) + 1

\* a sorted account-summary report has pushed the accounts, the one with
\* the smaller total first, and has flushed the account handler
C12_Witness ==
  /\ driver = "accounts" /\ pc = "return" /\ opts.sort_string # ""
  /\ acct.out = <<"master", "B", "A">> /\ acct.flushed = 1

(* ---------------------------------------------------------------------- *)
(* C13                                                                    *)
(* ---------------------------------------------------------------------- *)
\* the number of separators in a string
RECURSIVE CountSep(_)
CountSep(s) ==
  IF s = <<>> THEN 0
  ELSE (IF Head(s) = ";" THEN 1 ELSE 0) + CountSep(Tail(s))

\* the segments written one after the other with a separator between them
RECURSIVE JoinSep(_)
JoinSep(segs) ==
  IF Len(segs) = 1 THEN segs[1]
  ELSE segs[1] \o <<";">> \o JoinSep(Tail(segs))

\* the expressions of the decomposition stages, from the head of the chain
DescendStageExprs(ch) ==
  LET sel == SelectSeq(ch, LAMBDA st : st.slot = "descend_expr")
  IN  [i \in 1..Len(sel) |-> sel[i].dexpr]

\* C13: the chain holds no decomposition stage when descend_expr is empty
\* and otherwise one per segment, that is the number of ';' plus one; the
\* stages' expressions are the segments between the separators, the empty
\* ones included (leading, middle and trailing).
C13_SplitKeepsEmptySegments ==
  (mode /\ chain # <<>>) =>
    LET segs == DescendStageExprs(chain)
    IN  /\ \A i \in 1..Len(chain) :
             chain[i].kind = "component_xacts" <=> chain[i].slot = "descend_expr"
        /\ opts.descend_expr = <<>> => segs = <<>>
        /\ opts.descend_expr # <<>> =>
             /\ Len(segs) = CountSep(opts.descend_expr) + 1
             /\ \A i \in 1..Len(segs) : CountSep(segs[i]) = 0
             /\ JoinSep(segs) = opts.descend_expr

\* a chain built from "a;": two stages, the second with the empty expression
C13_Witness ==
  /\ mode /\ chain # <<>>
  /\ opts.descend_expr = <<"a", ";">>
  /\ DescendStageExprs(chain) = <<(<<"a">>), <<>> >>

(* ---------------------------------------------------------------------- *)
(* C14                                                                    *)
(* ---------------------------------------------------------------------- *)
\* the expressions of the decomposition stages that took item id, in the
\* order in which they took it
DescendExprsSeen(id) ==
  LET sel == SelectSeq(run.seen, LAMBDA e :
               e[2] = id /\ chain[e[1]].slot = "descend_expr")
  IN  [k \in 1..Len(sel) |-> chain[sel[k][1]].dexpr]

\* C14: the decomposition stages take an item in the order in which their
\* expressions are written in descend_expr: the stage of the first
\* expression is the nearest to the source among them, the stage of the
\* last expression the nearest to the sink.  (An item that a decomposition
\* stage put in the place of a total goes through the stages after that
\* one.)
C14_DescendInWrittenOrder ==
  (mode /\ chain # <<>> /\ opts.descend_expr # <<>>) =>
    /\ JoinSep(DescendStageExprs(chain)) = opts.descend_expr
    /\ \A i, j \in 1..Len(chain) :
         (i < j /\ chain[i].slot = "descend_expr"
          /\ chain[j].slot = "descend_expr") =>
           \A k \in i..j : chain[k].slot = "descend_expr"
    /\ pc = "return" =>
         \A id \in 1..NumXacts :
           LET took == DescendExprsSeen(id)
               segs == DescendStageExprs(chain)
           IN  /\ Len(took) <= Len(segs)
               /\ took = SubSeq(segs, Len(segs) - Len(took) + 1, Len(segs))

\* with descend_expr "a;" a transaction went through the stage of "a" and
\* then through the stage of the empty expression
C14_Witness ==
  /\ mode /\ pc = "return" /\ opts.descend_expr = <<"a", ";">>
  /\ DescendExprsSeen(1) = <<(<<"a">>), <<>> >>

(* ---------------------------------------------------------------------- *)
(* C15                                                                    *)
(* ---------------------------------------------------------------------- *)
PayeeKinds == {"set_comm_as_payee", "set_code_as_payee"}

\* the payee-substitution stages of a chain, from the head
PayeeStages(ch) ==
  LET sel == SelectSeq(ch, LAMBDA st : st.kind \in PayeeKinds)
  IN  [i \in 1..Len(sel) |-> sel[i].kind]

\* C15: in both modes the chain holds at most one payee-substitution stage:
\* the commodity-as-payee stage when comm_as_payee is set, whether or not
\* code_as_payee is set too, the code-as-payee stage when only code_as_payee
\* is set, none when neither is set.
C15_OnePayeeStage ==
  chain # <<>> =>
    PayeeStages(chain) =
      (IF opts.comm_as_payee THEN <<"set_comm_as_payee">>
       ELSE IF opts.code_as_payee THEN <<"set_code_as_payee">>
       ELSE <<>>)

\* a chain built with both flags set, in aggregate mode
C15_Witness ==
  /\ chain # <<>> /\ ~mode
  /\ opts.comm_as_payee /\ opts.code_as_payee
  /\ PayeeStages(chain) = <<"set_comm_as_payee">>

(* ---------------------------------------------------------------------- *)
(* C16                                                                    *)
(* ---------------------------------------------------------------------- *)
\* C16: a call of abbrev raises the usage error naming
\* abbrev(STRING, WIDTH [, STYLE, ABBREV_LEN]) exactly when its argument
\* count is outside 2..4, and a call of ftime the one naming
\* ftime(DATE [, DATE_FORMAT]) exactly when its count is outside 1..2.
C16_UsageOnWrongCount ==
  /\ helper.fn = "abbrev" =>
       (helper.outcome = abbrev_usage <=> Len(helper.args) \notin 2..4)
  /\ helper.fn = "ftime" =>
       (helper.outcome = ftime_usage <=> Len(helper.args) \notin 1..2)

(* ---------------------------------------------------------------------- *)
(* C17                                                                    *)
(* ---------------------------------------------------------------------- *)
\* the filter stages of a chain, from the head: slot and expression
FilterStages(ch) ==
  LET sel == SelectSeq(ch, LAMBDA st : st.kind = "filter_xacts")
  IN  [i \in 1..Len(sel) |-> <<sel[i].slot, sel[i].expr>>]

FilterOf(o, f) == IF o[f] # "" THEN << <<f, o[f]>> >> ELSE <<>>

\* the transaction satisfies every predicate that is set
SatisfiesAll(o, x) ==
  \A f \in PredicateOptions : o[f] # "" => Eval(o[f], x)

\* C17: when only filter options are set, each set predicate has a filter
\* stage of its own, and the terminal consumer of the transaction report
\* receives exactly the pushed transactions that satisfy every set
\* predicate, each once and in source order.
C17_FiltersCompose ==
  (driver = "xacts" /\ chain # <<>> /\ OptsSet(opts) \subseteq PredicateOptions)
  =>
    /\ FilterStages(chain) =
         FilterOf(opts, "predicate") \o FilterOf(opts, "secondary_predicate")
         \o FilterOf(opts, "display_predicate")
    /\ Len(chain) = Cardinality(OptsSet(opts)) + 2
    /\ [i \in 1..Len(run.out) |-> Strip(run.out[i])] =
         SelectSeq(SubSeq(SessionXacts, 1, walkpos),
                   LAMBDA x : SatisfiesAll(opts, x))

\* a transaction report with three predicates, two of them different, has
\* run to its end and has let through one transaction and held back others
C17_Witness ==
  /\ driver = "xacts" /\ pc = "return"
  /\ opts.display_predicate = "a>0" /\ opts.secondary_predicate = "d>1"
  /\ opts.predicate # "" /\ OptsSet(opts) = PredicateOptions
  /\ Len(run.out) = NumEntries - 1

(* ---------------------------------------------------------------------- *)
(* C18                                                                    *)
(* ---------------------------------------------------------------------- *)
\* a is b with some items taken out
RECURSIVE IsSubsequence(_, _)
IsSubsequence(a, b) ==
  IF a = <<>> THEN TRUE
  ELSE IF b = <<>> THEN FALSE
  ELSE IF Head(a) = Head(b) THEN IsSubsequence(Tail(a), Tail(b))
  ELSE IsSubsequence(a, Tail(b))

\* a whole run of chain ch over the session: every item pushed, then the
\* head flushed
WholeRun(ch) ==
  flush(ch, accept(ch, FreshRun(ch, {}, {}), 1, SessionXacts), 1)

\* the same report without a head or tail count
UntruncatedRun ==
  WholeRun(chain_xact_handlers(
             chain[Len(chain)], mode,
             [opts EXCEPT !.head_entries = 0, !.tail_entries = 0], now))

\* C18: with a head or tail count the terminal consumer receives some of
\* the items it receives without one, in the same order and with the same
\* running total stamped on each; the running-total stage takes and stamps
\* the same transactions as without the count.
C18_TruncateKeepsTotals ==
  (driver = "direct" /\ mode /\ pc = "return"
   /\ (opts.head_entries # 0 \/ opts.tail_entries # 0)) =>
    /\ IsSubsequence(run.out, UntruncatedRun.out)
    /\ run.wrote_x = UntruncatedRun.wrote_x
    /\ \A i \in 1..Len(chain) :
         chain[i].slot = "truncate" =>
           \E j \in 1..(i - 1) : chain[j].slot = "calc"

\* a report with a tail count went to its end, and the terminal consumer
\* received transactions that carry a running total, but not all of them
C18_Witness ==
  /\ driver = "direct" /\ mode /\ pc = "return" /\ opts.tail_entries # 0
  /\ run.out # <<>> /\ Len(run.out) < Len(UntruncatedRun.out)
  /\ \E i \in 1..Len(run.out) : run.out[i].total # 0

(* ---------------------------------------------------------------------- *)
(* C19                                                                    *)
(* ---------------------------------------------------------------------- *)
\* the running total the calc stage of chain ch holds in run state st
CalcTotal(ch, st) ==
  st.loc[CHOOSE i \in 1..Len(ch) : ch[i].kind = "calc_xacts"].n

\* the totals stamped on what the terminal consumer received
StampedTotals(st) == [i \in 1..Len(st.out) |-> st.out[i].total]

\* the chain with the filter of the running report upstream of calc
FilterFirst ==
  chain_xact_handlers(
    format_xacts, TRUE,
    [DefaultOpts EXCEPT !.secondary_predicate = opts.display_predicate], now)

\* the chain without any filter
NoFilter == chain_xact_handlers(format_xacts, TRUE, DefaultOpts, now)

\* what the filter of the running report removes
Removed ==
  SelectSeq(SessionXacts, LAMBDA x : ~Eval(opts.display_predicate, x))

\* a transaction report whose only option is the display filter, which is
\* downstream of calc, has pushed every transaction
CalcThenFilterDone ==
  /\ driver = "xacts" /\ pc = "return"
  /\ OptsSet(opts) = {"display_predicate"}

\* C19 as stated: calc upstream of a filter and the same filter upstream of
\* calc give different final running totals whenever the filter removes an
\* item with a nonzero amount (read either as the total calc has reached or
\* as the totals stamped on what the terminal consumer received); and a
\* filter downstream of calc leaves the totals stamped by calc as they are.
C19_OrderAlwaysMatters ==
  CalcThenFilterDone =>
    /\ (\E k \in 1..Len(Removed) : Removed[k].amount # 0) =>
         \/ CalcTotal(chain, run)
              # CalcTotal(FilterFirst, WholeRun(FilterFirst))
         \/ StampedTotals(run) # StampedTotals(WholeRun(FilterFirst))
    /\ IsSubsequence(run.out, WholeRun(NoFilter).out)

\* C19 amended: the two chains give different final running totals exactly
\* when the amounts of the removed items do not sum to zero (a filter that
\* removes whole balanced entries leaves the final total as it is); and a
\* filter downstream of calc leaves the totals stamped by calc as they are:
\* each item that passes carries the total it carries without the filter.
C19_OrderMattersByRemovedSum ==
  CalcThenFilterDone =>
    /\ CalcTotal(chain, run) = SumAmounts(SessionXacts)
    /\ CalcTotal(FilterFirst, WholeRun(FilterFirst))
         = SumAmounts(SessionXacts) - SumAmounts(Removed)
    /\ (CalcTotal(chain, run) # CalcTotal(FilterFirst, WholeRun(FilterFirst)))
         <=> SumAmounts(Removed) # 0
    /\ IsSubsequence(run.out, WholeRun(NoFilter).out)
    /\ [i \in 1..Len(run.out) |-> run.out[i].id]
         = [i \in 1..Len(WholeRun(FilterFirst).out) |->
              WholeRun(FilterFirst).out[i].id]

\* the display filter removed a whole balanced entry, and the running total
\* is the same with the filter upstream of calc
C19_Witness ==
  /\ CalcThenFilterDone
  /\ Removed # <<>> /\ SumAmounts(Removed) = 0
  /\ run.out # <<>>
  /\ CalcTotal(chain, run) = CalcTotal(FilterFirst, WholeRun(FilterFirst))

(* ---------------------------------------------------------------------- *)
(* C20                                                                    *)
(* ---------------------------------------------------------------------- *)
ReconcileStages(ch) == SelectSeq(ch, LAMBDA st : st.kind = "reconcile_xacts")

\* C20: the chain holds the reconcile stage exactly when individual_mode is
\* true and reconcile_balance is not empty; its cutoff is the parsed
\* reconcile_date when that string is not empty and the current moment
\* otherwise; with reconcile_balance empty, reconcile_date is not parsed
\* and changes nothing in the chain, so that a reconcile_date that is no
\* date does not by itself make construction fail.
C20_ReconcileGate ==
  /\ chain # <<>> =>
       /\ Len(ReconcileStages(chain)) =
            IF mode /\ opts.reconcile_balance # "" THEN 1 ELSE 0
       /\ \A i \in 1..Len(chain) :
            chain[i].kind = "reconcile_xacts" =>
              /\ chain[i].slot = "reconcile"
              /\ chain[i].expr = opts.reconcile_balance
              /\ chain[i].cutoff =
                   IF opts.reconcile_date # ""
                     THEN parse_datetime(opts.reconcile_date) ELSE now
       /\ opts.reconcile_balance = "" =>
            chain = chain_xact_handlers(
                      chain[Len(chain)], mode,
                      [opts EXCEPT !.reconcile_date = ""], now)
  /\ pc = "thrown" =>
       /\ mode /\ opts.reconcile_balance # ""
       /\ opts.reconcile_date # "" /\ ~ParsesAsDate(opts.reconcile_date)
  /\ (pc \notin {"idle", "thrown"}) => chain # <<>>

\* a chain was built in individual mode with a reconcile_date that is no
\* date and no reconcile_balance, and it ran to its end
C20_Witness ==
  /\ mode /\ pc = "return" /\ chain # <<>>
  /\ opts.reconcile_date = "bogus" /\ opts.reconcile_balance = ""
  /\ run.out # <<>>

====
